---------------------------- MODULE Spec2Model ----------------------------
(***************************************************************************)
(* A model of main_module.py: the scraper that fetches the four Wikipedia  *)
(* institution lists, normalises their tables, splits the nicknames and    *)
(* writes dictionary.txt, dictionary.json and nicknames.xlsx.              *)
(*                                                                         *)
(* Python strings are sequences of one-character strings, so that `in`,    *)
(* str.split and str.startswith are computed as Python computes them.      *)
(* A DataFrame is a record [columns, index, rows]: rows[r][c] is the cell  *)
(* of row r under the c-th column label.                                   *)
(***************************************************************************)
EXTENDS Integers, Sequences, FiniteSets, TLC

VARIABLES
    field, edited,                       \* field_edits: argument, successive results
    nickname, gw_out,                    \* gw_info: argument, result
    raw_frm, assoc_indx, norm_frm, norm_pc,   \* rfmt_df: arguments, result, outcome
    pc, cycle, url_indx, assoc_list,     \* __main__ / get_schools: position, loop state
    parsed, exc,                         \* responses handed to read_html; exception raised
    dframe, data_dict, json_out,         \* get_schools() result, analyze() result, json_out
    dictionary_txt, dictionary_json, nicknames_xlsx, written   \* the output files

clean_vars == <<field, edited>>
split_vars == <<nickname, gw_out>>
norm_vars == <<raw_frm, assoc_indx, norm_frm, norm_pc>>
run_vars == <<pc, cycle, url_indx, assoc_list, parsed, exc, dframe, data_dict,
              json_out, dictionary_txt, dictionary_json, nicknames_xlsx, written>>
vars == <<clean_vars, split_vars, norm_vars, run_vars>>

--------------------------------------------------------------------------
(* Bounds of the inputs. *)

\* longest input string, counted in pieces (see FieldPieces, NicknamePieces)
MaxPieces == 5
\* most records in a FinalRecord collection handed to analyze
MaxRecs == 3

--------------------------------------------------------------------------
(* String literals of the program. *)

MW == <<".", "m", "w", "-">>
LB == <<"[">>
AND == <<" ", "a", "n", "d", " ">>
AMP == <<" ", "&", " ">>
DASH == <<"-">>
TAB == "\t"
INST_SUFFIX == <<"_", "i", "n", "s", "t", "i", "t", "u", "t", "i", "o", "n", "s">>
LIST_OF == <<"L", "i", "s", "t", "_", "o", "f", "_">>
URL_PREFIX ==
    <<"h", "t", "t", "p", "s", ":", "/", "/", "e", "n", ".", "w", "i", "k", "i",
      "p", "e", "d", "i", "a", ".", "o", "r", "g", "/", "w", "i", "k", "i", "/",
      "L", "i", "s", "t", "_", "o", "f", "_">>

cCommonName == <<"C", "o", "m", "m", "o", "n", " ", "n", "a", "m", "e">>
cSchool == <<"S", "c", "h", "o", "o", "l">>
cState == <<"S", "t", "a", "t", "e">>
cStateProvince == <<"S", "t", "a", "t", "e", "/", "P", "r", "o", "v", "i", "n", "c", "e">>
cPrimary == <<"P", "r", "i", "m", "a", "r", "y">>
cConference == <<"C", "o", "n", "f", "e", "r", "e", "n", "c", "e">>
cInstitution == <<"I", "n", "s", "t", "i", "t", "u", "t", "i", "o", "n">>
cNickname == <<"N", "i", "c", "k", "n", "a", "m", "e">>
cCity == <<"C", "i", "t", "y">>
cAssociation == <<"A", "s", "s", "o", "c", "i", "a", "t", "i", "o", "n">>
cGenericNickname ==
    <<"G", "e", "n", "e", "r", "i", "c", " ", "N", "i", "c", "k", "n", "a", "m", "e">>
cWomensNickname ==
    <<"W", "o", "m", "e", "n", "'", "s", " ", "N", "i", "c", "k", "n", "a", "m", "e">>
cType == <<"T", "y", "p", "e">>
cStatehood == <<"S", "t", "a", "t", "e", "h", "o", "o", "d">>

\* the dict ASSOC, in insertion order
ASSOC ==
    << [key |-> <<"N", "C", "A", "A", "_", "D", "i", "v", "i", "s", "i", "o", "n",
                  "_", "I", "_", "i", "n", "s", "t", "i", "t", "u", "t", "i", "o",
                  "n", "s">>, val |-> 1],
       [key |-> <<"N", "C", "A", "A", " ", "D", "i", "v", "i", "s", "i", "o", "n",
                  "_", "I", "I", "_", "i", "n", "s", "t", "i", "t", "u", "t", "i",
                  "o", "n", "s">>, val |-> 0],
       [key |-> <<"N", "C", "A", "A", " ", "D", "i", "v", "i", "s", "i", "o", "n",
                  "_", "I", "I", "I", "_", "i", "n", "s", "t", "i", "t", "u", "t",
                  "i", "o", "n", "s">>, val |-> 0],
       [key |-> <<"N", "A", "I", "A", "_", "i", "n", "s", "t", "i", "t", "u", "t",
                  "i", "o", "n", "s">>, val |-> 0] >>

--------------------------------------------------------------------------
(* Python's str operations. *)

\* s[p:] with p counted from 1
str_from(s, p) == SubSeq(s, p, Len(s))

\* s.startswith(prefix)
startswith(s, prefix) ==
    /\ Len(prefix) <= Len(s)
    /\ SubSeq(s, 1, Len(prefix)) = prefix

\* s.find(sep) counted from 1; 0 when sep does not occur
RECURSIVE str_find(_, _, _)
str_find(s, sep, p) ==
    IF p + Len(sep) - 1 > Len(s) THEN 0
    ELSE IF SubSeq(s, p, p + Len(sep) - 1) = sep THEN p
    ELSE str_find(s, sep, p + 1)

\* sep in s
str_in(sep, s) == str_find(s, sep, 1) # 0

\* s.split(sep), sep a non-empty string
RECURSIVE str_split(_, _)
str_split(s, sep) ==
    LET p == str_find(s, sep, 1)
    IN  IF p = 0 THEN <<s>>
        ELSE <<SubSeq(s, 1, p - 1)>> \o str_split(str_from(s, p + Len(sep)), sep)

\* the whitespace characters that can occur in the modelled cells
isspace(c) == c \in {" ", TAB}

\* s.split(): the maximal runs of non-whitespace characters
RECURSIVE str_split_ws(_, _)
str_split_ws(s, word) ==
    IF s = <<>> THEN (IF word = <<>> THEN <<>> ELSE <<word>>)
    ELSE IF isspace(Head(s))
         THEN (IF word = <<>> THEN <<>> ELSE <<word>>) \o str_split_ws(Tail(s), <<>>)
         ELSE str_split_ws(Tail(s), Append(word, Head(s)))

\* ' '.join(parts)
RECURSIVE str_join(_)
str_join(parts) ==
    IF parts = <<>> THEN <<>>
    ELSE IF Len(parts) = 1 THEN parts[1]
    ELSE parts[1] \o <<" ">> \o str_join(Tail(parts))

\* ord(c) for the characters that occur in keywords
ord(c) ==
    CASE c = "A" -> 65 [] c = "B" -> 66 [] c = "D" -> 68
      [] c = "a" -> 97 [] c = "b" -> 98 [] c = "d" -> 100
      [] OTHER -> 63

\* a < b for Python strings: by code point, a proper prefix first
RECURSIVE str_lt(_, _)
str_lt(a, b) ==
    IF b = <<>> THEN FALSE
    ELSE IF a = <<>> THEN TRUE
    ELSE IF ord(Head(a)) # ord(Head(b)) THEN ord(Head(a)) < ord(Head(b))
    ELSE str_lt(Tail(a), Tail(b))

--------------------------------------------------------------------------
(* get_websites, field_edits, gw_info *)

get_websites == [i \in 1..Len(ASSOC) |-> URL_PREFIX \o ASSOC[i].key]

\* ASSOC[k]
assoc_get(k) == ASSOC[CHOOSE i \in 1..Len(ASSOC) : ASSOC[i].key = k].val

\* field_edits with the markers tried in the other order
field_edits_bracket_first(fld) ==
    IF str_in(LB, fld) THEN str_split(fld, LB)[1]
    ELSE IF str_in(MW, fld) THEN str_split(fld, MW)[1]
    ELSE fld

field_edits(fld) ==
    IF str_in(MW, fld) THEN str_split(fld, MW)[1]
    ELSE IF str_in(LB, fld) THEN str_split(fld, LB)[1]
    ELSE fld

gw_info(nick) ==
    LET asplit == <<str_split(nick, AND), str_split(nick, AMP)>>
        sh_info == SelectSeq(asplit, LAMBDA a : Len(a) = 2)
    IN  IF sh_info = <<>> THEN <<nick, DASH>> ELSE sh_info[1]

--------------------------------------------------------------------------
(* pandas DataFrame operations, as far as the program uses them. *)

EmptyFrame == [columns |-> <<>>, index |-> <<>>, rows |-> <<>>]

Range(f) == {f[i] : i \in DOMAIN f}

nrows(frm) == Len(frm.rows)

\* the positions of the columns labelled `label`, in column order
col_locs(frm, label) ==
    SelectSeq([i \in 1..Len(frm.columns) |-> i], LAMBDA i : frm.columns[i] = label)

\* frm.rename(columns={old: new}): every column labelled old; none is no error
rename(frm, old, new) ==
    [frm EXCEPT !.columns =
        [c \in DOMAIN frm.columns |-> IF frm.columns[c] = old THEN new ELSE frm.columns[c]]]

\* frm[label] = values, values a Series (one value per row)
set_column(frm, label, values) ==
    IF col_locs(frm, label) = <<>>
    THEN [frm EXCEPT !.columns = Append(frm.columns, label),
                     !.rows = [r \in DOMAIN frm.rows |-> Append(frm.rows[r], values[r])]]
    ELSE [frm EXCEPT !.rows =
            [r \in DOMAIN frm.rows |->
                [c \in DOMAIN frm.rows[r] |->
                    IF frm.columns[c] = label THEN values[r] ELSE frm.rows[r][c]]]]

\* frm[label] as a Series, label a unique column label
get_column(frm, label) ==
    [r \in DOMAIN frm.rows |-> frm.rows[r][col_locs(frm, label)[1]]]

\* frm[label] = frm[label].apply(field_edits).  Under a unique label the
\* selection is a Series and field_edits gets each cell.  Under a repeated
\* label the selection is a DataFrame, apply hands field_edits each column
\* as a Series, `marker in Series` looks the marker up among the row labels
\* (integers), and the columns come back unchanged.
apply_field_edits(frm, label) ==
    IF Len(col_locs(frm, label)) = 1
    THEN set_column(frm, label,
            [r \in DOMAIN frm.rows |-> field_edits(get_column(frm, label)[r])])
    ELSE frm

\* frm[locs] by position
take_columns(frm, locs) ==
    [frm EXCEPT !.columns = [j \in DOMAIN locs |-> frm.columns[locs[j]]],
                !.rows = [r \in DOMAIN frm.rows |->
                            [j \in DOMAIN locs |-> frm.rows[r][locs[j]]]]]

\* the positions frm[clist] selects: for each label of clist in turn, every
\* column that carries it
RECURSIVE select_locs(_, _)
select_locs(frm, clist) ==
    IF clist = <<>> THEN <<>>
    ELSE col_locs(frm, Head(clist)) \o select_locs(frm, Tail(clist))

\* frm.drop(columns=[label])
drop_column(frm, label) ==
    take_columns(frm,
        SelectSeq([i \in 1..Len(frm.columns) |-> i], LAMBDA i : frm.columns[i] # label))

\* pd.concat(frames) of frames that carry the same column labels
RECURSIVE concat(_)
concat(frames) ==
    IF Len(frames) = 1 THEN frames[1]
    ELSE LET rest == concat(Tail(frames))
         IN  [columns |-> frames[1].columns,
              index |-> frames[1].index \o rest.index,
              rows |-> frames[1].rows \o rest.rows]

\* frm.reset_index(drop=True)
reset_index(frm) == [frm EXCEPT !.index = [r \in DOMAIN frm.rows |-> r - 1]]

\* frm.iloc[a].to_dict(), a counted from 0
iloc_to_dict(frm, a) ==
    [c \in Range(frm.columns) |-> frm.rows[a + 1][col_locs(frm, c)[1]]]

--------------------------------------------------------------------------
(* cleanup, rfmt_df, fix_mw_teams *)

CLIST == <<cInstitution, cNickname, cCity, cState, cConference, cAssociation>>

RECURSIVE cleanup_edits(_, _)
cleanup_edits(clist, data_frm) ==
    IF clist = <<>> THEN data_frm
    ELSE cleanup_edits(Tail(clist), apply_field_edits(data_frm, Head(clist)))

\* cleanup that edits the columns and returns the whole frame
cleanup_keeps_all(clist, data_frm) == cleanup_edits(clist, data_frm)

cleanup(clist, data_frm) ==
    LET edited_frm == cleanup_edits(clist, data_frm)
    IN  take_columns(edited_frm, select_locs(edited_frm, clist))

\* the State-prefixed column labels, in column order
state_heads(data_frm) == SelectSeq(data_frm.columns, LAMBDA a : startswith(a, cState))

\* lines 62-69: the renames
renamed(data_frm) ==
    LET sthead == state_heads(data_frm)[1]
        f1 == rename(data_frm, sthead, cState)
        f2 == rename(f1, cPrimary, cConference)
    IN  IF cCommonName \in Range(f2.columns)
        THEN rename(f2, cCommonName, cInstitution)
        ELSE rename(f2, cSchool, cInstitution)

\* list(ASSOC.keys())[assoc_indx][0:-len('_institutions')], assoc_indx from 0
association(indx) ==
    SubSeq(ASSOC[indx + 1].key, 1, Len(ASSOC[indx + 1].key) - Len(INST_SUFFIX))

\* lines 70-72
with_association(data_frm, indx) ==
    set_column(data_frm, cAssociation, [r \in DOMAIN data_frm.rows |-> association(indx)])

\* the exception rfmt_df ends with, "" when it returns
rfmt_df_exc(data_frm) ==
    IF state_heads(data_frm) = <<>> THEN "IndexError"
    ELSE IF \E e \in {cNickname, cInstitution, cCity, cState, cConference} :
                e \notin Range(renamed(data_frm).columns)
         THEN "KeyError"
         ELSE ""

\* rfmt_df without line 73
rfmt_df_no_line_73(data_frm, indx) ==
    cleanup(CLIST, with_association(renamed(data_frm), indx))

rfmt_df(data_frm, indx) ==
    cleanup(CLIST,
        apply_field_edits(with_association(renamed(data_frm), indx), cNickname))

fix_mw_teams(frm) ==
    LET nicks == get_column(frm, cNickname)
        g == set_column(frm, cGenericNickname,
                [r \in DOMAIN frm.rows |-> gw_info(nicks[r])[1]])
        w == set_column(g, cWomensNickname,
                [r \in DOMAIN frm.rows |-> gw_info(nicks[r])[2]])
    IN  drop_column(w, cNickname)

\* line 107
get_schools_result(alist) == reset_index(fix_mw_teams(concat(alist)))

--------------------------------------------------------------------------
(* analyze, concordance, to_excel.  A Python dict is the sequence of its   *)
(* [key, val] items in insertion order.                                    *)

dict_has(d, k) == \E j \in DOMAIN d : d[j].key = k

dict_get(d, k) == d[CHOOSE j \in DOMAIN d : d[j].key = k].val

dict_keys(d) == [j \in DOMAIN d |-> d[j].key]

\* lines 126-129 with a record entered once per keyword
dict_append_once(ndict, keyword, a) ==
    IF dict_has(ndict, keyword)
    THEN [j \in DOMAIN ndict |->
            IF ndict[j].key = keyword /\ a \notin Range(ndict[j].val)
            THEN [key |-> keyword, val |-> Append(ndict[j].val, a)]
            ELSE ndict[j]]
    ELSE Append(ndict, [key |-> keyword, val |-> <<a>>])

\* lines 126-129
dict_append(ndict, keyword, a) ==
    IF dict_has(ndict, keyword)
    THEN [j \in DOMAIN ndict |->
            IF ndict[j].key = keyword
            THEN [key |-> keyword, val |-> Append(ndict[j].val, a)]
            ELSE ndict[j]]
    ELSE Append(ndict, [key |-> keyword, val |-> <<a>>])

\* the inner loop, line 125
RECURSIVE add_keywords(_, _, _)
add_keywords(ndict, keywords, a) ==
    IF keywords = <<>> THEN ndict
    ELSE add_keywords(dict_append(ndict, Head(keywords), a), Tail(keywords), a)

\* the outer loop, line 124, from pool position a (counted from 0)
RECURSIVE index_pool(_, _, _)
index_pool(ndict, pool, a) ==
    IF a >= Len(pool) THEN ndict
    ELSE index_pool(
            add_keywords(ndict, str_split_ws(pool[a + 1][cGenericNickname], <<>>), a),
            pool, a + 1)

analyze(frm) ==
    LET pool == [r \in 1..nrows(frm) |-> iloc_to_dict(frm, r - 1)]
    IN  [pool |-> pool, words |-> index_pool(<<>>, pool, 0)]

\* sorted(keys)
RECURSIVE insert_sorted(_, _)
insert_sorted(k, s) ==
    IF s = <<>> THEN <<k>>
    ELSE IF str_lt(k, Head(s)) THEN <<k>> \o s
    ELSE <<Head(s)>> \o insert_sorted(k, Tail(s))

RECURSIVE sort_keys(_)
sort_keys(keys) ==
    IF keys = <<>> THEN <<>> ELSE insert_sorted(Head(keys), sort_keys(Tail(keys)))

\* the keys as the dict holds them, unsorted
sorted_is_insertion_order(keys) == keys

sorted(keys) == sort_keys(keys)

sc_and_n(ddict, school) ==
    str_join(<<ddict.pool[school + 1][cInstitution],
               ddict.pool[school + 1][cGenericNickname]>>)

\* the lines printed for one keyword, lines 144-147
keyword_lines(ddict, keyword) ==
    LET schools == dict_get(ddict.words, keyword)
    IN  <<keyword \o <<":">>>>
        \o [j \in DOMAIN schools |-> <<TAB>> \o sc_and_n(ddict, schools[j])]

RECURSIVE text_lines(_, _)
text_lines(ddict, keywords) ==
    IF keywords = <<>> THEN <<>>
    ELSE keyword_lines(ddict, Head(keywords)) \o text_lines(ddict, Tail(keywords))

\* json_out after the loop of lines 143-148
build_json_out(ddict, keywords) ==
    [j \in DOMAIN keywords |->
        [key |-> keywords[j],
         val |-> LET schools == dict_get(ddict.words, keywords[j])
                 IN  [i \in DOMAIN schools |-> sc_and_n(ddict, schools[i])]]]

\* frm.to_excel(file_name): the header row and one row per record, the row
\* label first
to_excel(frm) ==
    [header |-> frm.columns,
     rows |-> [r \in DOMAIN frm.rows |-> [index |-> frm.index[r], cells |-> frm.rows[r]]]]

--------------------------------------------------------------------------
(* The inputs: strings, raw tables, response bodies, record collections.   *)

RECURSIVE flatten(_)
flatten(pieces) == IF pieces = <<>> THEN <<>> ELSE Head(pieces) \o flatten(Tail(pieces))

\* the strings made of at most n pieces
Concats(pieces, n) == {flatten(q) : q \in UNION {[1..k -> pieces] : k \in 0..n}}

\* cell texts: the two markers, a part of a marker, other text
FieldPieces == {<<"T">>, MW, LB, <<".", "m", "w">>, <<"-">>}

Fields == Concats(FieldPieces, MaxPieces)

\* nickname texts: names and the two separators
NicknamePieces == {<<"T">>, <<"L">>, AND, AMP}

Nicknames == Concats(NicknamePieces, MaxPieces)

\* the column labels a source table may carry, in page order
LabelOrder ==
    <<cSchool, cCommonName, cNickname, cCity, cState, cStateProvince, cType,
      cPrimary, cConference, cInstitution, cStatehood>>

Reverse(s) == [i \in DOMAIN s |-> s[Len(s) + 1 - i]]

\* a one-row table under the given labels; each cell holds its column's label
labelled_table(labels) ==
    [columns |-> labels, index |-> <<0>>, rows |-> <<labels>>]

\* every choice of labels, in page order or in the opposite order
ColumnVariantTables ==
    {labelled_table(SelectSeq(order, LAMBDA c : c \in chosen)) :
        order \in {LabelOrder, Reverse(LabelOrder)},
        chosen \in SUBSET Range(LabelOrder)}

\* tables of the usual columns whose text cells all hold the same text f
CellVariantTables ==
    {[columns |-> <<cSchool, cNickname, cCity, cState, cPrimary>>,
      index |-> <<0>>,
      rows |-> << <<f, f, f, f, f>> >>] : f \in Fields}

RawTables == ColumnVariantTables \cup CellVariantTables

\* the institutions table of source k (counted from 0) in one of its versions
data_table(k, version) ==
    LET school == IF version = "A" THEN <<"U">> ELSE <<"V">>
        nick == IF version = "A" THEN <<"T", "[", "1", "]">>
                ELSE <<"E", " ", "a", "n", "d", " ", "L">>
    IN  CASE k = 0 ->
               [columns |-> <<cSchool, cCommonName, cNickname, cCity, cState, cType, cPrimary>>,
                index |-> <<0>>,
                rows |-> << <<school \o <<"n">>, school, nick, <<"c">>, <<"s">>, <<"t">>, <<"p">>>> >>]
          [] k = 1 ->
               [columns |-> <<cSchool, cNickname, cCity, cStateProvince, cType, cPrimary>>,
                index |-> <<0>>,
                rows |-> << <<school, nick, <<"c">>, <<"s">>, <<"t">>, <<"p">>>> >>]
          [] OTHER ->
               [columns |-> <<cSchool, cNickname, cCity, cState, cType, cPrimary>>,
                index |-> <<0>>,
                rows |-> << <<school, nick, <<"c">>, <<"s">>, <<"t">>, <<"p">>>> >>]

legend_table == [columns |-> << <<"K", "e", "y">> >>, index |-> <<0>>, rows |-> << << <<"k">> >> >>]

\* the tables of the list page of source k: the first page has a table before
\* the institutions table
page(k, version) ==
    IF ASSOC[k + 1].val = 1 THEN <<legend_table, data_table(k, version)>>
    ELSE <<data_table(k, version)>>

\* the bodies a response to the GET of source k may carry: the page in one of
\* two versions, or a page without a table
Bodies(k) == {[tables |-> page(k, "A")], [tables |-> page(k, "B")], [tables |-> <<>>]}

\* the HTTP status of a response
Statuses == {200, 503}

\* pd.read_html(text): the tables of the page; raises ValueError when none
read_html(body) == body.tables

\* the FinalRecord collections handed to analyze
GenericNicks ==
    {<<>>, <<"B">>, <<"a">>, <<"B", " ", "a">>, <<"a", " ", " ", "a">>, <<"a", "B">>}

FinalColumns ==
    <<cInstitution, cCity, cState, cConference, cAssociation, cGenericNickname,
      cWomensNickname>>

final_row(inst, nick) == <<inst, <<"c">>, <<"s">>, <<"p">>, <<"N">>, nick, DASH>>

FinalRows == {final_row(inst, nick) : inst \in {<<"U">>, <<"V">>}, nick \in GenericNicks}

FinalFrames ==
    {[columns |-> FinalColumns, index |-> [r \in DOMAIN rows |-> r - 1], rows |-> rows] :
        rows \in UNION {[1..m -> FinalRows] : m \in 0..MaxRecs}}

--------------------------------------------------------------------------
(* Initial states *)

IdleClean == field = <<>> /\ edited = <<>>

IdleSplit == nickname = <<>> /\ gw_out = <<>>

IdleNorm ==
    /\ raw_frm = EmptyFrame
    /\ assoc_indx = 0
    /\ norm_frm = EmptyFrame
    /\ norm_pc = "idle"

NoOutput ==
    /\ parsed = <<>>
    /\ exc = ""
    /\ data_dict = [pool |-> <<>>, words |-> <<>>]
    /\ json_out = <<>>
    /\ dictionary_txt = <<>>
    /\ dictionary_json = <<>>
    /\ nicknames_xlsx = [header |-> <<>>, rows |-> <<>>]
    /\ written = {}

IdleRun ==
    /\ pc = "idle"
    /\ cycle = 0
    /\ url_indx = 0
    /\ assoc_list = <<>>
    /\ dframe = EmptyFrame
    /\ NoOutput

\* field_edits is about to be called on some text
InitClean ==
    /\ field \in Fields
    /\ edited = <<>>
    /\ IdleSplit /\ IdleNorm /\ IdleRun

\* gw_info is about to be called on some nickname
InitSplit ==
    /\ nickname \in Nicknames
    /\ gw_out = <<>>
    /\ IdleClean /\ IdleNorm /\ IdleRun

\* rfmt_df is about to be called on some table of some source
InitNorm ==
    /\ raw_frm \in RawTables
    /\ assoc_indx \in 0..(Len(ASSOC) - 1)
    /\ norm_frm = EmptyFrame
    /\ norm_pc = "call"
    /\ IdleClean /\ IdleSplit /\ IdleRun

\* the program starts: concordance() calls analyze(), which calls get_schools()
Init ==
    /\ pc = "get_schools"
    /\ cycle = 1
    /\ url_indx = 0
    /\ assoc_list = <<>>
    /\ dframe = EmptyFrame
    /\ NoOutput
    /\ IdleClean /\ IdleSplit /\ IdleNorm

\* analyze() has its frame from get_schools()
InitConc ==
    /\ pc = "analyze"
    /\ cycle = 1
    /\ url_indx = Len(ASSOC)
    /\ assoc_list = <<>>
    /\ dframe \in FinalFrames
    /\ NoOutput
    /\ IdleClean /\ IdleSplit /\ IdleNorm

--------------------------------------------------------------------------
(* Actions *)

\* field_edits(field)
call_field_edits ==
    /\ edited = <<>>
    /\ edited' = <<field_edits(field)>>
    /\ UNCHANGED <<field, split_vars, norm_vars, run_vars>>

\* field_edits applied to its own result (as cleanup does to the Nickname column)
call_field_edits_again ==
    /\ Len(edited) = 1
    /\ edited' = Append(edited, field_edits(edited[1]))
    /\ UNCHANGED <<field, split_vars, norm_vars, run_vars>>

\* gw_info(nickname)
call_gw_info ==
    /\ gw_out = <<>>
    /\ gw_out' = <<gw_info(nickname)>>
    /\ UNCHANGED <<nickname, clean_vars, norm_vars, run_vars>>

\* rfmt_df(raw_frm, assoc_indx) returns
rfmt_df_returns ==
    /\ norm_pc = "call"
    /\ rfmt_df_exc(raw_frm) = ""
    /\ norm_frm' = rfmt_df(raw_frm, assoc_indx)
    /\ norm_pc' = "return"
    /\ UNCHANGED <<raw_frm, assoc_indx, clean_vars, split_vars, run_vars>>

\* rfmt_df(raw_frm, assoc_indx) raises
rfmt_df_raises ==
    /\ norm_pc = "call"
    /\ rfmt_df_exc(raw_frm) # ""
    /\ norm_pc' = rfmt_df_exc(raw_frm)
    /\ UNCHANGED <<raw_frm, assoc_indx, norm_frm, clean_vars, split_vars, run_vars>>

\* line 105: requests.get raises (no connection, timeout); nothing catches it
fetch_raises ==
    /\ pc = "get_schools"
    /\ url_indx < Len(get_websites)
    /\ \E e \in {"ConnectionError", "Timeout"} : exc' = e
    /\ pc' = "aborted"
    /\ UNCHANGED <<cycle, url_indx, assoc_list, parsed, dframe, data_dict, json_out,
                   dictionary_txt, dictionary_json, nicknames_xlsx, written,
                   clean_vars, split_vars, norm_vars>>

\* lines 104-106: requests.get returns a response; its text goes to read_html,
\* whatever its status
fetch_returns ==
    /\ pc = "get_schools"
    /\ url_indx < Len(get_websites)
    /\ \E status \in Statuses, body \in Bodies(url_indx) :
        LET url == get_websites[url_indx + 1]
            parts == str_split(url, LIST_OF)
            indx == assoc_get(parts[Len(parts)])
            tables == read_html(body)
            raised ==
                IF tables = <<>> THEN "ValueError"
                ELSE IF indx + 1 > Len(tables) THEN "IndexError"
                ELSE rfmt_df_exc(tables[indx + 1])
        IN  /\ parsed' = Append(parsed, [cycle |-> cycle, url |-> url_indx, status |-> status])
            /\ IF raised # ""
               THEN /\ exc' = raised
                    /\ pc' = "aborted"
                    /\ UNCHANGED <<url_indx, assoc_list>>
               ELSE /\ assoc_list' = Append(assoc_list, rfmt_df(tables[indx + 1], url_indx))
                    /\ url_indx' = url_indx + 1
                    /\ UNCHANGED <<exc, pc>>
    /\ UNCHANGED <<cycle, dframe, data_dict, json_out, dictionary_txt, dictionary_json,
                   nicknames_xlsx, written, clean_vars, split_vars, norm_vars>>

\* line 107: get_schools returns, to analyze (line 120) or to output_school (line 113)
get_schools_returns ==
    /\ pc = "get_schools"
    /\ url_indx = Len(get_websites)
    /\ dframe' = get_schools_result(assoc_list)
    /\ pc' = IF cycle = 1 THEN "analyze" ELSE "to_excel"
    /\ UNCHANGED <<cycle, url_indx, assoc_list, parsed, exc, data_dict, json_out,
                   dictionary_txt, dictionary_json, nicknames_xlsx, written,
                   clean_vars, split_vars, norm_vars>>

\* lines 121-130
analyze_returns ==
    /\ pc = "analyze"
    /\ data_dict' = analyze(dframe)
    /\ pc' = "write_txt"
    /\ UNCHANGED <<cycle, url_indx, assoc_list, parsed, exc, dframe, json_out,
                   dictionary_txt, dictionary_json, nicknames_xlsx, written,
                   clean_vars, split_vars, norm_vars>>

\* lines 141-148
write_dictionary_txt ==
    /\ pc = "write_txt"
    /\ LET keywords == sorted(dict_keys(data_dict.words))
       IN  /\ dictionary_txt' = text_lines(data_dict, keywords)
           /\ json_out' = build_json_out(data_dict, keywords)
    /\ written' = written \cup {"dictionary.txt"}
    /\ pc' = "write_json"
    /\ UNCHANGED <<cycle, url_indx, assoc_list, parsed, exc, dframe, data_dict,
                   dictionary_json, nicknames_xlsx, clean_vars, split_vars, norm_vars>>

\* lines 149-150, then line 154: output_school calls get_schools again
write_dictionary_json ==
    /\ pc = "write_json"
    /\ dictionary_json' = json_out
    /\ written' = written \cup {"dictionary.json"}
    /\ pc' = "get_schools"
    /\ cycle' = 2
    /\ url_indx' = 0
    /\ assoc_list' = <<>>
    /\ UNCHANGED <<parsed, exc, dframe, data_dict, json_out, dictionary_txt,
                   nicknames_xlsx, clean_vars, split_vars, norm_vars>>

\* line 113
write_nicknames_xlsx ==
    /\ pc = "to_excel"
    /\ nicknames_xlsx' = to_excel(dframe)
    /\ written' = written \cup {"nicknames.xlsx"}
    /\ pc' = "done"
    /\ UNCHANGED <<cycle, url_indx, assoc_list, parsed, exc, dframe, data_dict,
                   json_out, dictionary_txt, dictionary_json, clean_vars, split_vars,
                   norm_vars>>

--------------------------------------------------------------------------
(* Specifications *)

NextClean == call_field_edits \/ call_field_edits_again

NextSplit == call_gw_info

NextNorm == rfmt_df_returns \/ rfmt_df_raises

NextConc == analyze_returns \/ write_dictionary_txt \/ write_dictionary_json

Next ==
    \/ fetch_raises
    \/ fetch_returns
    \/ get_schools_returns
    \/ analyze_returns
    \/ write_dictionary_txt
    \/ write_dictionary_json
    \/ write_nicknames_xlsx

\* field_edits on every text of Fields
SpecClean == InitClean /\ [][NextClean]_vars

\* gw_info on every nickname of Nicknames
SpecSplit == InitSplit /\ [][NextSplit]_vars

\* rfmt_df on every table of RawTables
SpecNorm == InitNorm /\ [][NextNorm]_vars

\* analyze and concordance on every collection of FinalFrames
SpecConc == InitConc /\ [][NextConc]_vars

\* one run of the program
Spec == Init /\ [][Next]_vars

--------------------------------------------------------------------------
(* Properties of field_edits (SpecClean) *)

\* marker m occurs in s at position p
Occurs(s, m, p) ==
    /\ p >= 1
    /\ p + Len(m) - 1 <= Len(s)
    /\ \A j \in 1..Len(m) : s[p + j - 1] = m[j]

HasMarker(s, m) == \E p \in 1..Len(s) : Occurs(s, m, p)

\* r is the part of s before the first occurrence of m
CutAtFirst(s, m, r) ==
    /\ Len(r) < Len(s)
    /\ \A j \in 1..Len(r) : r[j] = s[j]
    /\ Occurs(s, m, Len(r) + 1)
    /\ \A p \in 1..Len(r) : ~Occurs(s, m, p)

\* r is what the Text Cleaner is to make of s
CleanedOnce(s, r) ==
    IF HasMarker(s, MW) THEN CutAtFirst(s, MW, r)
    ELSE IF HasMarker(s, LB) THEN CutAtFirst(s, LB, r)
    ELSE r = s

\* C1: field_edits is idempotent: field_edits(field_edits(s)) = field_edits(s)
\* for every text s.
C1_Idempotent == Len(edited) = 2 => edited[2] = edited[1]

\* C9: the result of field_edits is the text before the first '.mw-' when the
\* text holds '.mw-' (wherever a '[' stands), else the text before the first
\* '[' when it holds one, else the text itself.
C9_FieldEditsResult == Len(edited) >= 1 => CleanedOnce(field, edited[1])

\* C9 witness: a text with a '[' before its first '.mw-' has been cut at the
\* '.mw-', and the result keeps the '['.
C9_Witness ==
    /\ Len(edited) >= 1
    /\ HasMarker(field, MW)
    /\ HasMarker(edited[1], LB)
    /\ edited[1] # <<>>

--------------------------------------------------------------------------
(* Properties of gw_info (SpecSplit) *)

TwoNonEmptyParts(parts) == Len(parts) = 2 /\ parts[1] # <<>> /\ parts[2] # <<>>

\* C2: gw_info returns the two parts of the split on ' and ' when they are
\* exactly two and non-empty, else those of the split on ' & ' under the same
\* rule, else (nickname, '-'); so a two-part result has no empty part.
C2_SplitContract ==
    gw_out # <<>> =>
        gw_out[1] =
            IF TwoNonEmptyParts(str_split(nickname, AND)) THEN str_split(nickname, AND)
            ELSE IF TwoNonEmptyParts(str_split(nickname, AMP)) THEN str_split(nickname, AMP)
            ELSE <<nickname, DASH>>

--------------------------------------------------------------------------
(* Properties of rfmt_df (SpecNorm) *)

Labels(frm) == Range(frm.columns)

\* the six NormalizedRecord columns, each once, and no other column
ExactlySixColumns(frm) ==
    /\ Len(frm.columns) = Len(CLIST)
    /\ \A e \in Range(CLIST) : Len(col_locs(frm, e)) = 1

\* the tables C6 speaks of: Nickname, City and Primary, one institution
\* column and one state column
C6_Domain(frm) ==
    /\ {cNickname, cCity, cPrimary} \subseteq Labels(frm)
    /\ Cardinality({cCommonName, cSchool} \cap Labels(frm)) = 1
    /\ Cardinality({cState, cStateProvince} \cap Labels(frm)) = 1

\* no other column is labelled Institution or Conference, and no column whose
\* label starts with State stands before a column labelled State
NoCollidingLabel(frm) ==
    /\ cInstitution \notin Labels(frm)
    /\ cConference \notin Labels(frm)
    /\ \A i, j \in DOMAIN frm.columns :
          (i < j /\ frm.columns[j] = cState) => ~startswith(frm.columns[i], cState)

UsualColumns == <<cSchool, cNickname, cCity, cState, cPrimary>>

\* C10: after rfmt_df no Nickname value holds '.mw-' or '[', whatever the raw
\* text (the column goes through field_edits twice); the other five columns
\* hold their raw text cleaned once.
C10_NicknameClean ==
    norm_pc = "return" =>
        /\ \A r \in DOMAIN norm_frm.rows : \A c \in DOMAIN norm_frm.columns :
              norm_frm.columns[c] = cNickname =>
                  /\ ~HasMarker(norm_frm.rows[r][c], MW)
                  /\ ~HasMarker(norm_frm.rows[r][c], LB)
        /\ raw_frm.columns = UsualColumns =>
              \A r \in DOMAIN norm_frm.rows :
                  /\ CleanedOnce(raw_frm.rows[r][1], norm_frm.rows[r][1])
                  /\ CleanedOnce(raw_frm.rows[r][3], norm_frm.rows[r][3])
                  /\ CleanedOnce(raw_frm.rows[r][4], norm_frm.rows[r][4])
                  /\ CleanedOnce(raw_frm.rows[r][5], norm_frm.rows[r][5])
                  /\ CleanedOnce(association(assoc_indx), norm_frm.rows[r][6])

\* C10 witness: a raw text with a '[' before its '.mw-' has been normalised:
\* the City value keeps a '[', the Nickname value holds no marker.
C10_Witness ==
    /\ norm_pc = "return"
    /\ raw_frm.columns = UsualColumns
    /\ HasMarker(raw_frm.rows[1][2], MW)
    /\ norm_frm.columns = CLIST
    /\ HasMarker(norm_frm.rows[1][3], LB)
    /\ ~HasMarker(norm_frm.rows[1][2], LB)
    /\ norm_frm.rows[1][2] # <<>>

--------------------------------------------------------------------------
(* Properties of analyze and concordance (SpecConc) *)

\* the Generic Nickname of the record at position i (from 0) of the collection
GenericOf(i) == dframe.rows[i + 1][col_locs(dframe, cGenericNickname)[1]]

InstitutionOf(i) == dframe.rows[i + 1][col_locs(dframe, cInstitution)[1]]

IsWord(t) == t # <<>> /\ \A j \in DOMAIN t : ~isspace(t[j])

\* the places of s where t stands as a whitespace-delimited token
TokenPlaces(t, s) ==
    {p \in 1..Len(s) :
        /\ Occurs(s, t, p)
        /\ p = 1 \/ isspace(s[p - 1])
        /\ p + Len(t) > Len(s) \/ isspace(s[p + Len(t)])}

\* every candidate token: the keys of the index and every piece of a nickname
CandidateTokens ==
    Range(dict_keys(data_dict.words))
    \cup {t \in UNION {{SubSeq(GenericOf(i), a, b) : a, b \in 1..Len(GenericOf(i))} :
                        i \in 0..(nrows(dframe) - 1)} : IsWord(t)}

WordsOf(t) == IF dict_has(data_dict.words, t) THEN dict_get(data_dict.words, t) ELSE <<>>

\* C7: position i occurs in words[t] as often as t occurs among the tokens of
\* record i's Generic Nickname, and every words[t] is in non-decreasing
\* position order.
C7_ConcordanceCounts ==
    pc # "analyze" =>
        /\ Len(data_dict.pool) = nrows(dframe)
        /\ \A j, k \in DOMAIN data_dict.words :
              j # k => data_dict.words[j].key # data_dict.words[k].key
        /\ \A t \in CandidateTokens :
              /\ IsWord(t)
              /\ \A i \in 0..(nrows(dframe) - 1) :
                    Cardinality({j \in DOMAIN WordsOf(t) : WordsOf(t)[j] = i})
                        = Cardinality(TokenPlaces(t, GenericOf(i)))
              /\ \A j \in DOMAIN WordsOf(t) :
                    /\ WordsOf(t)[j] \in 0..(nrows(dframe) - 1)
                    /\ j > 1 => WordsOf(t)[j - 1] <= WordsOf(t)[j]

\* C7 witness: the index is built from several records, one of which repeats
\* a word, and that record stands twice under the word.
C7_Witness ==
    /\ pc = "write_txt"
    /\ nrows(dframe) >= 2
    /\ \E t \in CandidateTokens :
          /\ Len(WordsOf(t)) >= 3
          /\ \E j \in 2..Len(WordsOf(t)) : WordsOf(t)[j - 1] = WordsOf(t)[j]
          /\ \E j \in 2..Len(WordsOf(t)) : WordsOf(t)[j - 1] < WordsOf(t)[j]

\* a < b by code point, told from the first place where they differ
CodePointLess(a, b) ==
    \E k \in 1..Len(b) :
        /\ \A j \in 1..(k - 1) : j <= Len(a) /\ a[j] = b[j]
        /\ k > Len(a) \/ ord(a[k]) < ord(b[k])

IsEntryLine(line) == line # <<>> /\ line[1] = TAB

\* the keyword of a header line 'keyword:'
HeaderKeyword(line) == SubSeq(line, 1, Len(line) - 1)

\* the header lines of the text file, in file order
HeaderPlaces(txt) == {j \in DOMAIN txt : ~IsEntryLine(txt[j])}

\* the entries under the header at line h: the tab-indented lines up to the
\* next header, without their tab
EntriesUnder(txt, h) ==
    LET stop == IF \E j \in HeaderPlaces(txt) : j > h
                THEN CHOOSE j \in HeaderPlaces(txt) :
                        j > h /\ \A k \in HeaderPlaces(txt) : k > h => j <= k
                ELSE Len(txt) + 1
    IN  [j \in 1..(stop - h - 1) |-> Tail(txt[h + j])]

\* C8: the keyword headers of dictionary.txt are in strictly ascending
\* code-point order, and dictionary.json has the same keywords and under each
\* the same list of 'Institution Generic-Nickname' strings as the text file.
C8_ReportsAgree ==
    "dictionary.json" \in written =>
        /\ \A h \in HeaderPlaces(dictionary_txt) :
              /\ dictionary_txt[h][Len(dictionary_txt[h])] = ":"
              /\ \A g \in HeaderPlaces(dictionary_txt) :
                    g < h => CodePointLess(HeaderKeyword(dictionary_txt[g]),
                                           HeaderKeyword(dictionary_txt[h]))
        /\ dictionary_txt # <<>> => 1 \in HeaderPlaces(dictionary_txt)
        /\ {HeaderKeyword(dictionary_txt[h]) : h \in HeaderPlaces(dictionary_txt)}
              = Range(dict_keys(dictionary_json))
        /\ Cardinality(HeaderPlaces(dictionary_txt)) = Len(dictionary_json)
        /\ \A h \in HeaderPlaces(dictionary_txt) :
              EntriesUnder(dictionary_txt, h)
                  = dict_get(dictionary_json, HeaderKeyword(dictionary_txt[h]))
        /\ \A j \in DOMAIN dictionary_json :
              /\ dictionary_json[j].val # <<>>
              /\ \A e \in DOMAIN dictionary_json[j].val :
                    \E i \in 0..(nrows(dframe) - 1) :
                        dictionary_json[j].val[e]
                            = InstitutionOf(i) \o <<" ">> \o GenericOf(i)

\* C8 witness: both files are written with an upper-case and a lower-case
\* keyword, first met in descending order, one of them with several entries.
C8_Witness ==
    /\ "dictionary.json" \in written
    /\ Len(dictionary_json) >= 2
    /\ dict_has(dictionary_json, <<"B">>)
    /\ dict_has(dictionary_json, <<"a">>)
    /\ Len(dict_get(dictionary_json, <<"a">>)) >= 2
    /\ data_dict.words[1].key = <<"a">>
    /\ Len(dictionary_txt) >= 5

--------------------------------------------------------------------------
(* Properties of a run (Spec) *)

\* C3: a failed page fetch aborts the run with no output file written.
C3_NoOutputOnFetchFailure ==
    (pc = "aborted" /\ exc \in {"ConnectionError", "Timeout"}) => written = {}

\* the record under row r of the spreadsheet
XlsxRecord(r) ==
    [c \in Range(nicknames_xlsx.header) |->
        nicknames_xlsx.rows[r].cells[
            CHOOSE j \in DOMAIN nicknames_xlsx.header : nicknames_xlsx.header[j] = c]]

\* C4: the record in spreadsheet row i is the record at position i of the pool
\* the concordance of the same run was built from.
C4_RoundTrip ==
    pc = "done" =>
        /\ Len(nicknames_xlsx.rows) = Len(data_dict.pool)
        /\ \A r \in DOMAIN nicknames_xlsx.rows :
              XlsxRecord(r) = data_dict.pool[nicknames_xlsx.rows[r].index + 1]

\* C5: the body of a response with an error status is never handed to the
\* table parser.
C5_ErrorStatusNeverParsed == \A j \in DOMAIN parsed : parsed[j].status < 400

==========================================================================
